---------------------------- MODULE Spec2Model ----------------------------
(***************************************************************************)
(* Model of the creation handshake of meteoritus (a tus upload server):    *)
(*   src/src/handlers/creation.rs  CreationRequest::from_request,          *)
(*                                 creation_handler, parse_tus_metadata    *)
(*   src/src/fs/metadata.rs        Metadata::try_from, Metadata::get_raw   *)
(* Strings are sequences of one-character strings, byte strings are        *)
(* sequences of numbers in 0..255, a HashMap is a function.                *)
(***************************************************************************)
EXTENDS Integers, Sequences, FiniteSets, TLC

VARIABLES
    input,        \* the argument of the pure function under check
    result,       \* what the function returned
    phase,        \* position of the pure-function run
    max_size,     \* Meteoritus.max_size, the configured ceiling
    on_creation,  \* Meteoritus.on_creation is Some(callback)
    headers,      \* per request: the headers received
    pc,           \* per request: position in from_request / creation_handler
    req,          \* per request: the CreationRequest built by from_request
    file,         \* per request: the CometFile built by creation_handler
    vault,        \* the records the vault persisted
    outcome,      \* per request: the final outcome
    uri,          \* per request: the location formatted by creation_handler
    addCalls,     \* per request: the results of its calls of vault.add
    cbCalls       \* per request: the results of its calls of the callback

pureVars == <<input, result, phase>>
orchVars == <<max_size, on_creation, headers, pc, req, file, vault, outcome, uri,
              addCalls, cbCalls>>
vars == <<input, result, phase, max_size, on_creation, headers, pc, req, file,
          vault, outcome, uri, addCalls, cbCalls>>

----------------------------------------------------------------------------
(* Bounds of the model *)

\* width of the unsigned integer standing for u64
UBits == 5
\* longest Upload-Length text enumerated
MaxDigits == 2
\* longest metadata text enumerated for the two parsers
MaxStrLen == 6
\* longest byte string encoded in the round trip
MaxBytes == 3
\* number of concurrent creation requests
NumReqs == 2

----------------------------------------------------------------------------
(* Option, Result and strings *)

None == [some |-> FALSE]
Some(x) == [some |-> TRUE, v |-> x]

Ok(x) == [ok |-> TRUE, v |-> x]
Err(e) == [ok |-> FALSE, e |-> e]

RECURSIVE SeqsUpTo(_, _)
SeqsUpTo(S, n) ==
    IF n = 0 THEN {<<>>}
    ELSE LET shorter == SeqsUpTo(S, n - 1)
         IN  shorter \cup {Append(s, c) : s \in {t \in shorter : Len(t) = n - 1}, c \in S}

\* char::is_whitespace, on the characters the model uses
IsWhitespace(c) == c \in {" ", "\t"}

RECURSIVE TrimStart(_)
TrimStart(s) ==
    IF s # <<>> /\ IsWhitespace(Head(s)) THEN TrimStart(Tail(s)) ELSE s

RECURSIVE TrimEnd(_)
TrimEnd(s) ==
    IF s # <<>> /\ IsWhitespace(s[Len(s)])
    THEN TrimEnd(SubSeq(s, 1, Len(s) - 1))
    ELSE s

\* str::trim
Trim(s) == TrimEnd(TrimStart(s))

\* str::find(char): the 0-based index of the first occurrence
Find(s, c) ==
    IF \E i \in 1..Len(s) : s[i] = c
    THEN Some((CHOOSE i \in 1..Len(s) : s[i] = c /\ \A j \in 1..(i - 1) : s[j] # c) - 1)
    ELSE None

\* str::split(char), collected: "" gives [""], "a," gives ["a", ""]
RECURSIVE Split(_, _)
Split(s, c) ==
    LET at == Find(s, c)
    IN  IF at.some
        THEN <<SubSeq(s, 1, at.v)>> \o Split(SubSeq(s, at.v + 2, Len(s)), c)
        ELSE <<s>>

\* str::split_at(idx), idx 0-based
SplitAt(s, idx) == <<SubSeq(s, 1, idx), SubSeq(s, idx + 1, Len(s))>>

\* HashMap::new and HashMap::insert (an existing key is overwritten)
EmptyMap == <<>>
Insert(m, k, x) == [y \in DOMAIN m \cup {k} |-> IF y = k THEN x ELSE m[y]]

----------------------------------------------------------------------------
(* u64 and str::parse::<u64> *)

U64_MAX == 2 ^ UBits - 1

Digits == <<"0", "1", "2", "3", "4", "5", "6", "7", "8", "9">>
IsDigit(c) == \E i \in 1..10 : Digits[i] = c
ToDigit(c) == (CHOOSE i \in 1..10 : Digits[i] = c) - 1

\* the digit loop: checked_mul(10) then checked_add(digit)
RECURSIVE ParseDigits(_, _)
ParseDigits(s, acc) ==
    IF s = <<>> THEN Ok(acc)
    ELSE IF ~IsDigit(Head(s)) THEN Err("InvalidDigit")
    ELSE LET n == acc * 10 + ToDigit(Head(s))
         IN  IF n > U64_MAX THEN Err("PosOverflow") ELSE ParseDigits(Tail(s), n)

\* an unsigned parse accepts one leading '+', never a '-'
ParseU64(s) ==
    IF s = <<>> THEN Err("Empty")
    ELSE IF Len(s) = 1 /\ s[1] \in {"+", "-"} THEN Err("InvalidDigit")
    ELSE IF s[1] = "+" THEN ParseDigits(Tail(s), 0)
    ELSE ParseDigits(s, 0)

----------------------------------------------------------------------------
(* handlers/creation.rs: parse_tus_metadata *)

RECURSIVE LenientPairs(_, _)
LenientPairs(pairs, metadata_map) ==
    IF pairs = <<>> THEN metadata_map
    ELSE LET metadata_pair == Head(pairs)
             idx == Find(metadata_pair, " ")
         IN  IF idx.some
             THEN LET kv == SplitAt(metadata_pair, idx.v)
                  IN  LenientPairs(Tail(pairs),
                                   Insert(metadata_map, Trim(kv[1]), Trim(kv[2])))
             ELSE LenientPairs(Tail(pairs), metadata_map)

parse_tus_metadata(metadata_str) ==
    IF metadata_str # <<>>
    THEN LenientPairs(Split(metadata_str, ","), EmptyMap)
    ELSE EmptyMap

----------------------------------------------------------------------------
(* handlers/creation.rs: CreationRequest::from_request *)

TUS_VERSION == <<"1", ".", "0", ".", "0">>

OutcomeFailure(status, msg) == [kind |-> "Failure", status |-> status, msg |-> msg]
OutcomeSuccess(x) == [kind |-> "Success", value |-> x]

CreationRequest(upload_length, metadata) ==
    [upload_length |-> upload_length, metadata |-> metadata]

\* lines 77-81: the Upload-Metadata header
MetadataOf(h) ==
    IF ~h.metadata.some THEN None
    ELSE IF h.metadata.v = <<>> THEN None
    ELSE Some(parse_tus_metadata(h.metadata.v))

\* lines 55-58: the Content-Length header; only its absence fails, the number
\* parsed from it (0 when it does not parse) is dropped
ContentLengthCheck(h) ==
    IF h.content_length.some
    THEN LET parsed == ParseU64(h.content_length.v)
             content_length == IF parsed.ok THEN parsed.v ELSE 0
         IN  None
    ELSE Some(OutcomeFailure("BadRequest", "Missing Content-Length header"))

\* the ceiling compared with >= where the code compares with >
UploadLengthCheck_Inclusive(h, ceiling) ==
    IF ~h.upload_length.some
    THEN OutcomeFailure("BadRequest", "Missing Upload-Length header")
    ELSE LET parsed == ParseU64(h.upload_length.v)
         IN  IF ~parsed.ok
             THEN OutcomeFailure("BadRequest", "Invalid Upload-Length header")
             ELSE IF parsed.v >= ceiling
             THEN OutcomeFailure("PayloadTooLarge", "Upload-Length exceeds the Tus-Max-Size")
             ELSE OutcomeSuccess(CreationRequest(parsed.v, MetadataOf(h)))

\* lines 60-75: the Upload-Length header and the ceiling
UploadLengthCheck(h, ceiling) ==
    IF ~h.upload_length.some
    THEN OutcomeFailure("BadRequest", "Missing Upload-Length header")
    ELSE LET parsed == ParseU64(h.upload_length.v)
         IN  IF ~parsed.ok
             THEN OutcomeFailure("BadRequest", "Invalid Upload-Length header")
             ELSE IF parsed.v > ceiling
             THEN OutcomeFailure("PayloadTooLarge", "Upload-Length exceeds the Tus-Max-Size")
             ELSE OutcomeSuccess(CreationRequest(parsed.v, MetadataOf(h)))

\* the Upload-Length checks made before the Content-Length check
from_request_LengthFirst(h, ceiling) ==
    IF ~h.tus_resumable.some \/ h.tus_resumable.v # TUS_VERSION
    THEN OutcomeFailure("BadRequest", "Missing or invalid Tus-Resumable header")
    ELSE LET ul == UploadLengthCheck(h, ceiling)
             cl == ContentLengthCheck(h)
         IN  IF ul.kind = "Failure" THEN ul
             ELSE IF cl.some THEN cl.v ELSE ul

from_request(h, ceiling) ==
    IF ~h.tus_resumable.some \/ h.tus_resumable.v # TUS_VERSION
    THEN OutcomeFailure("BadRequest", "Missing or invalid Tus-Resumable header")
    ELSE LET cl == ContentLengthCheck(h)
         IN  IF cl.some THEN cl.v ELSE UploadLengthCheck(h, ceiling)

----------------------------------------------------------------------------
(* Inputs of the negotiator *)

Headers(tus, cl, ul, md) ==
    [tus_resumable |-> tus, content_length |-> cl, upload_length |-> ul, metadata |-> md]

TusValues == {None, Some(TUS_VERSION), Some(<<"0", ".", "9", ".", "0">>), Some(<<>>)}
ContentLengthValues == {None, Some(<<"0">>), Some(<<"a", "b", "c">>)}
LengthAlphabet == {"0", "2", "9", "+", "x"}
UploadLengthValues == {None} \cup {Some(s) : s \in SeqsUpTo(LengthAlphabet, MaxDigits)}
MetadataValues == {None, Some(<<>>), Some(<<"a", " ", "b">>), Some(<<"a", "b">>)}
Ceilings == {0, 2, 20, U64_MAX}

AllHeaders ==
    {Headers(t, c, u, m) : t \in TusValues, c \in ContentLengthValues,
                           u \in UploadLengthValues, m \in MetadataValues}

----------------------------------------------------------------------------
(* The orchestrator's state when no request is in flight *)

OrchIdle ==
    /\ max_size = 0
    /\ on_creation = FALSE
    /\ headers = <<>>
    /\ pc = <<>>
    /\ req = <<>>
    /\ file = <<>>
    /\ vault = {}
    /\ outcome = <<>>
    /\ uri = <<>>
    /\ addCalls = <<>>
    /\ cbCalls = <<>>

----------------------------------------------------------------------------
(* SpecNegotiate: from_request on every combination of headers *)

NegInit ==
    /\ input \in {[h |-> h, ceiling |-> c] : h \in AllHeaders, c \in Ceilings}
    /\ result = None
    /\ phase = "request"
    /\ OrchIdle

Negotiate ==
    /\ phase = "request"
    /\ result' = from_request(input.h, input.ceiling)
    /\ phase' = "negotiated"
    /\ UNCHANGED <<input, orchVars>>

NegNext == Negotiate

SpecNegotiate == NegInit /\ [][NegNext]_vars

----------------------------------------------------------------------------
(* fs/metadata.rs: impl TryFrom<&str> for Metadata *)

\* line 53 without the trim
PairOf_Untrimmed(raw) == raw

\* line 53: let pair = pair.trim()
PairOf(raw) == Trim(raw)

\* line 59: pair.split(' ').map(|v| v.trim()).collect()
PartsOf(pair) ==
    LET split == Split(pair, " ")
    IN  [i \in 1..Len(split) |-> Trim(split[i])]

\* line 61 letting three parts through
TooManyParts_OffByOne(parts) == parts = <<>> \/ Len(parts) > 3

\* line 61: parts.is_empty() || parts.len() > 2
TooManyParts(parts) == parts = <<>> \/ Len(parts) > 2

\* the loop of lines 52-77, returning at the first error
RECURSIVE StrictPairs(_, _)
StrictPairs(pairs, metadata) ==
    IF pairs = <<>> THEN Ok(metadata)
    ELSE LET pair == PairOf(Head(pairs))
         IN  IF pair = <<>> THEN StrictPairs(Tail(pairs), metadata)
             ELSE LET parts == PartsOf(pair)
                  IN  IF TooManyParts(parts) THEN Err("InvalidMetadataFormat")
                      ELSE IF parts[1] = <<>> THEN Err("InvalidKey")
                      ELSE StrictPairs(Tail(pairs),
                               Insert(metadata, parts[1],
                                      IF Len(parts) >= 2 THEN parts[2] ELSE <<>>))

try_from(value) ==
    IF value = <<>> THEN Err("InvalidMetadataFormat")
    ELSE StrictPairs(Split(value, ","), EmptyMap)

----------------------------------------------------------------------------
(* Base64, standard alphabet, canonical padding required *)

B64Alphabet ==
    <<"A", "B", "C", "D", "E", "F", "G", "H", "I", "J", "K", "L", "M", "N", "O", "P", "Q", "R", "S", "T", "U", "V", "W", "X", "Y", "Z",
      "a", "b", "c", "d", "e", "f", "g", "h", "i", "j", "k", "l", "m", "n", "o", "p", "q", "r", "s", "t", "u", "v", "w", "x", "y", "z",
      "0", "1", "2", "3", "4", "5", "6", "7", "8", "9", "+", "/">>

IsB64(c) == \E i \in 1..64 : B64Alphabet[i] = c
B64Index(c) == (CHOOSE i \in 1..64 : B64Alphabet[i] = c) - 1
B64Char(n) == B64Alphabet[n + 1]

RECURSIVE B64Encode(_)
B64Encode(bytes) ==
    IF bytes = <<>> THEN <<>>
    ELSE IF Len(bytes) = 1
    THEN <<B64Char(bytes[1] \div 4), B64Char((bytes[1] % 4) * 16), "=", "=">>
    ELSE IF Len(bytes) = 2
    THEN <<B64Char(bytes[1] \div 4),
           B64Char((bytes[1] % 4) * 16 + bytes[2] \div 16),
           B64Char((bytes[2] % 16) * 4), "=">>
    ELSE <<B64Char(bytes[1] \div 4),
           B64Char((bytes[1] % 4) * 16 + bytes[2] \div 16),
           B64Char((bytes[2] % 16) * 4 + bytes[3] \div 64),
           B64Char(bytes[3] % 64)>> \o B64Encode(SubSeq(bytes, 4, Len(bytes)))

\* the last group of four symbols, which alone may carry padding
DecodeLast(q) ==
    IF ~IsB64(q[1]) \/ ~IsB64(q[2]) THEN Err("DecodeError")
    ELSE LET a == B64Index(q[1])
             b == B64Index(q[2])
         IN  IF q[3] = "=" /\ q[4] = "="
             THEN IF b % 16 = 0 THEN Ok(<<a * 4 + b \div 16>>) ELSE Err("DecodeError")
             ELSE IF ~IsB64(q[3]) THEN Err("DecodeError")
             ELSE LET c == B64Index(q[3])
                  IN  IF q[4] = "="
                      THEN IF c % 4 = 0
                           THEN Ok(<<a * 4 + b \div 16, (b % 16) * 16 + c \div 4>>)
                           ELSE Err("DecodeError")
                      ELSE IF ~IsB64(q[4]) THEN Err("DecodeError")
                      ELSE Ok(<<a * 4 + b \div 16, (b % 16) * 16 + c \div 4,
                                (c % 4) * 64 + B64Index(q[4])>>)

RECURSIVE DecodeGroups(_)
DecodeGroups(s) ==
    IF Len(s) = 4 THEN DecodeLast(s)
    ELSE LET q == SubSeq(s, 1, 4)
         IN  IF \E i \in 1..4 : ~IsB64(q[i]) THEN Err("DecodeError")
             ELSE LET rest == DecodeGroups(SubSeq(s, 5, Len(s)))
                  IN  IF rest.ok THEN Ok(DecodeLast(q).v \o rest.v) ELSE rest

\* general_purpose::STANDARD.decode
B64Decode(s) ==
    IF s = <<>> THEN Ok(<<>>)
    ELSE IF Len(s) % 4 # 0 THEN Err("DecodeError")
    ELSE DecodeGroups(s)

----------------------------------------------------------------------------
(* fs/metadata.rs: Metadata::get_raw *)

\* the stored text returned as bytes without decoding
Decoded_Raw(value) == Ok(value)

\* lines 35-38
Decoded(value) ==
    LET decoded == B64Decode(value)
    IN  IF decoded.ok THEN Ok(decoded.v) ELSE Err("DecodeError")

get_raw(metadata, key) ==
    IF key \notin DOMAIN metadata THEN Err("InvalidKey")
    ELSE Decoded(metadata[key])

----------------------------------------------------------------------------
(* SpecMetadata: both metadata readers on every short text and on the     *)
(* texts of the tests of fs/metadata.rs                                    *)

METADATA_STR ==
    <<"r", "e", "l", "a", "t", "i", "v", "e", "P", "a", "t", "h", " ", "b", "n", "V", "s", "b", "A", "=", "=", ",",
      " ", "f", "i", "l", "e", "n", "a", "m", "e", " ", "b", "X", "l", "f", "d", "m", "l", "k", "Z", "W", "8", "u", "b", "X", "A", "0", ",",
      " ", "f", "i", "l", "e", "t", "y", "p", "e", " ", "d", "m", "l", "k", "Z", "W", "8", "v", "b", "X", "A", "0", ",", "i", "s", "_", "c", "o", "n", "f", "i", "d", "e", "n", "t", "i", "a", "l">>

INVALID_STR ==
    <<"f", "o", "o", "b", "a", "r", ",", " ", "f", "a", "s", " ", "b", "a", "r", "s", " ", "f", "o", "o", " ", "b", "a", "r", ",", " ">>

MetaAlphabet == {"a", "b", " ", ",", "\t"}
MetadataInputs == SeqsUpTo(MetaAlphabet, MaxStrLen) \cup {METADATA_STR, INVALID_STR}

MetaInit ==
    /\ input \in MetadataInputs
    /\ result = None
    /\ phase = "raw"
    /\ OrchIdle

StrictParse ==
    /\ phase = "raw"
    /\ result' = try_from(input)
    /\ phase' = "strict"
    /\ UNCHANGED <<input, orchVars>>

LenientParse ==
    /\ phase = "raw"
    /\ result' = parse_tus_metadata(input)
    /\ phase' = "lenient"
    /\ UNCHANGED <<input, orchVars>>

MetaNext == StrictParse \/ LenientParse

SpecMetadata == MetaInit /\ [][MetaNext]_vars

----------------------------------------------------------------------------
(* Claims about the two metadata readers *)

K_relativePath == <<"r", "e", "l", "a", "t", "i", "v", "e", "P", "a", "t", "h">>
K_filename == <<"f", "i", "l", "e", "n", "a", "m", "e">>
K_filetype == <<"f", "i", "l", "e", "t", "y", "p", "e">>
K_is_confidential == <<"i", "s", "_", "c", "o", "n", "f", "i", "d", "e", "n", "t", "i", "a", "l">>
V_relativePath == <<"b", "n", "V", "s", "b", "A", "=", "=">>
V_filename == <<"b", "X", "l", "f", "d", "m", "l", "k", "Z", "W", "8", "u", "b", "X", "A", "0">>
V_filetype == <<"d", "m", "l", "k", "Z", "W", "8", "v", "b", "X", "A", "0">>

\* C3: read leniently, the header of scenario C gives exactly the keys
\* relativePath, filename and filetype, filetype mapped to dmlkZW8vbXA0, and
\* no entry for is_confidential.
C3_ScenarioC ==
    (phase = "lenient" /\ input = METADATA_STR) =>
        /\ DOMAIN result = {K_relativePath, K_filename, K_filetype}
        /\ result[K_filetype] = V_filetype

\* what parse_tus_metadata returns on the header of scenario C
C3_Observed ==
    (phase = "lenient" /\ input = METADATA_STR) =>
        /\ DOMAIN result = {K_relativePath, <<>>}
        /\ result[K_relativePath] = V_relativePath
        /\ result[<<>>] = K_filetype \o <<" ">> \o V_filetype

\* the pairs the strict grammar keeps: the comma-separated segments, trimmed,
\* the empty ones left out
Segments(value) == Split(value, ",")
KeptPairs(value) ==
    LET segs == Segments(value)
    IN  {i \in 1..Len(segs) : Trim(segs[i]) # <<>>}
PairAt(value, i) == Trim(Segments(value)[i])
SpaceCount(p) == Cardinality({i \in 1..Len(p) : p[i] = " "})
\* the number of tokens of a pair is one more than the number of its spaces
TokenCount(p) == SpaceCount(p) + 1
FirstSpace(p) == CHOOSE i \in 1..Len(p) : p[i] = " " /\ \A j \in 1..(i - 1) : p[j] # " "
KeyOfPair(p) ==
    IF SpaceCount(p) = 0 THEN Trim(p) ELSE Trim(SubSeq(p, 1, FirstSpace(p) - 1))
ValueOfPair(p) ==
    IF SpaceCount(p) = 0 THEN <<>> ELSE Trim(SubSeq(p, FirstSpace(p) + 1, Len(p)))

\* C7: the strict parse fails with InvalidMetadataFormat on the empty string
\* and whenever some kept pair has three or more tokens; otherwise it succeeds
\* and stores, for every kept pair, its key with the empty value (one token)
\* or its key with its value (two tokens), a later pair overwriting an earlier
\* one with the same key.
C7_StrictGrammar ==
    phase = "strict" =>
        IF input = <<>> THEN result = Err("InvalidMetadataFormat")
        ELSE IF \E i \in KeptPairs(input) : TokenCount(PairAt(input, i)) >= 3
        THEN result = Err("InvalidMetadataFormat")
        ELSE /\ result.ok
             /\ DOMAIN result.v = {KeyOfPair(PairAt(input, i)) : i \in KeptPairs(input)}
             /\ \A i \in KeptPairs(input) :
                  (\A j \in KeptPairs(input) :
                      j > i => KeyOfPair(PairAt(input, j)) # KeyOfPair(PairAt(input, i)))
                  => result.v[KeyOfPair(PairAt(input, i))] = ValueOfPair(PairAt(input, i))

\* C7 witness: the text of the tests parses to four entries, the space-less
\* is_confidential kept with the empty value
C7_Witness ==
    /\ phase = "strict"
    /\ input = METADATA_STR
    /\ result.ok
    /\ Cardinality(DOMAIN result.v) = 4
    /\ K_is_confidential \in DOMAIN result.v
    /\ result.v[K_is_confidential] = <<>>
    /\ result.v[K_filetype] = V_filetype

\* C10: the strict parse never returns InvalidKey, its only error is
\* InvalidMetadataFormat, and every key of a parsed mapping is non-empty and
\* holds no space and no comma.
C10_NoInvalidKey ==
    phase = "strict" =>
        /\ ~result.ok => result.e = "InvalidMetadataFormat"
        /\ result.ok =>
             \A k \in DOMAIN result.v :
                 /\ k # <<>>
                 /\ \A i \in 1..Len(k) : k[i] \notin {" ", ","}

\* C10 witness: a pair with a leading space next to an empty pair parses
C10_Witness ==
    /\ phase = "strict"
    /\ \E i \in 1..Len(Segments(input)) :
          /\ Segments(input)[i] # <<>>
          /\ Head(Segments(input)[i]) = " "
          /\ Trim(Segments(input)[i]) # <<>>
    /\ \E i \in 1..Len(Segments(input)) : Segments(input)[i] = <<>>
    /\ result.ok
    /\ DOMAIN result.v # {}

----------------------------------------------------------------------------
(* SpecRoundTrip: bytes -> Base64 -> header text -> try_from -> get_raw *)

KeyA == <<"a">>
KeyId == <<"i", "d">>
KeyAbsent == <<"z">>
RtKeys == {KeyA, KeyId}
KeyOrders ==
    {<<KeyA>>, <<KeyId, KeyA>>, <<KeyA, KeyId>>, <<KeyA, KeyA>>, <<KeyId, KeyA, KeyId>>}
ByteVals == {0, 104, 255}
ByteStrings == SeqsUpTo(ByteVals, MaxBytes)

\* one pair of the header: the key, a space and the encoded bytes; a key whose
\* bytes are empty may be written alone
PairText(k, bytes, bare) ==
    IF bytes = <<>> /\ bare THEN k ELSE k \o <<" ">> \o B64Encode(bytes)

RECURSIVE JoinPairs(_, _, _)
JoinPairs(keys, bytes, bare) ==
    IF Len(keys) = 1 THEN PairText(keys[1], bytes[keys[1]], bare)
    ELSE PairText(keys[1], bytes[keys[1]], bare) \o <<",">> \o JoinPairs(Tail(keys), bytes, bare)

RtInit ==
    /\ input \in [keys : KeyOrders, bytes : [RtKeys -> ByteStrings], bare : BOOLEAN]
    /\ result = None
    /\ phase = "source"
    /\ OrchIdle

EncodeHeader ==
    /\ phase = "source"
    /\ result' = [header |-> JoinPairs(input.keys, input.bytes, input.bare)]
    /\ phase' = "header"
    /\ UNCHANGED <<input, orchVars>>

ParseHeader ==
    /\ phase = "header"
    /\ result' = [header |-> result.header, parsed |-> try_from(result.header)]
    /\ phase' = "parsed"
    /\ UNCHANGED <<input, orchVars>>

Lookup(k) ==
    /\ phase = "parsed"
    /\ result.parsed.ok
    /\ result' = [header |-> result.header, parsed |-> result.parsed,
                  key |-> k, raw |-> get_raw(result.parsed.v, k)]
    /\ phase' = "looked"
    /\ UNCHANGED <<input, orchVars>>

RtNext == EncodeHeader \/ ParseHeader \/ \E k \in RtKeys \cup {KeyAbsent} : Lookup(k)

SpecRoundTrip == RtInit /\ [][RtNext]_vars

KeysUsed == {input.keys[i] : i \in 1..Len(input.keys)}

\* C8: a header built by Base64-encoding a byte string for each key and
\* joining the pairs with commas parses, and get_raw on each of its keys
\* returns the bytes encoded for that key (no bytes for a key written alone).
C8_RoundTrip ==
    /\ phase \in {"parsed", "looked"} => result.parsed.ok
    /\ (phase = "looked" /\ result.key \in KeysUsed) =>
          result.raw = Ok(input.bytes[result.key])

\* C8 witness: a header of two keys, one written alone, the other with two
\* bytes (one padding symbol), looked up with the bytes returned
C8_Witness ==
    /\ phase = "looked"
    /\ input.keys = <<KeyId, KeyA>>
    /\ input.bare
    /\ input.bytes[KeyId] = <<>>
    /\ input.bytes[KeyA] = <<104, 255>>
    /\ result.key = KeyA
    /\ result.raw = Ok(<<104, 255>>)

\* tests::get_raw_value_successfully and tests::get_raw_value_error
TestGetRawValues ==
    LET metadata == try_from(METADATA_STR).v
    IN  /\ get_raw(metadata, K_filetype) = Ok(<<118, 105, 100, 101, 111, 47, 109, 112, 52>>)
        /\ get_raw(metadata, K_filename)
             = Ok(<<109, 121, 95, 118, 105, 100, 101, 111, 46, 109, 112, 52>>)
        /\ get_raw(metadata, K_relativePath) = Ok(<<110, 117, 108, 108>>)
        /\ get_raw(metadata, K_is_confidential) = Ok(<<>>)
        /\ get_raw(metadata, KeyAbsent) = Err("InvalidKey")
        /\ B64Encode(<<110, 117, 108, 108>>) = V_relativePath

----------------------------------------------------------------------------
(* Spec: concurrent creation requests through from_request and             *)
(* creation_handler                                                        *)

Reqs == 1..NumReqs
\* the identifiers with_uuid can draw
Ids == 1..NumReqs

ResponderSuccess(u) == [kind |-> "Success", uri |-> u]
ResponderFailure(status, msg) == [kind |-> "Failure", status |-> status, msg |-> msg]
\* the callback unwound through creation_handler: no responder is returned
Unwound == [kind |-> "Panic"]

\* format!("/files/{}", file.id())
FormatUri(id) == <<"/", "f", "i", "l", "e", "s", "/", id>>

\* CometFile::new(upload_length).with_uuid(), then with_metadata
CometFile(id, length, metadata) == [id |-> id, length |-> length, metadata |-> metadata]

\* the results vault.add can give, with the causes of a failure
VaultResults == {Ok("added"), Err("io"), Err("serialize")}

\* what the vault holds after a successful add of f by the n-th call of request r
VaultAdd(v, f, r, n) == v \cup {[file |-> f, req |-> r, n |-> n]}

RecordsOf(r) == {rec \in vault : rec.req = r}
UsedIds == {file[r].v.id : r \in {q \in Reqs : file[q].some}}

\* the requests the clients send
ClientHeaders ==
    {Headers(Some(TUS_VERSION), Some(<<"0">>), Some(<<"2">>), None),
     Headers(Some(TUS_VERSION), Some(<<"0">>), Some(<<"2", "0">>), Some(<<"a", " ", "b">>)),
     Headers(Some(TUS_VERSION), Some(<<"0">>), Some(<<"2", "9">>), None),
     Headers(None, Some(<<"0">>), Some(<<"2", "9">>), None),
     Headers(Some(TUS_VERSION), None, Some(<<"2">>), None),
     Headers(Some(TUS_VERSION), Some(<<"0">>), Some(<<"x">>), None)}

Init ==
    /\ input = None
    /\ result = None
    /\ phase = "serving"
    /\ max_size \in {2, 20}
    /\ on_creation \in BOOLEAN
    /\ headers = [r \in Reqs |-> None]
    /\ pc = [r \in Reqs |-> "idle"]
    /\ req = [r \in Reqs |-> None]
    /\ file = [r \in Reqs |-> None]
    /\ vault = {}
    /\ outcome = [r \in Reqs |-> None]
    /\ uri = [r \in Reqs |-> None]
    /\ addCalls = [r \in Reqs |-> <<>>]
    /\ cbCalls = [r \in Reqs |-> <<>>]

\* a client sends a creation request
Receive(r, h) ==
    /\ pc[r] = "idle"
    /\ headers' = [headers EXCEPT ![r] = Some(h)]
    /\ pc' = [pc EXCEPT ![r] = "received"]
    /\ UNCHANGED <<pureVars, max_size, on_creation, req, file, vault, outcome, uri,
                   addCalls, cbCalls>>

\* the request guard: a failure ends the request, the handler is not entered
FromRequest(r) ==
    /\ pc[r] = "received"
    /\ LET o == from_request(headers[r].v, max_size)
       IN  IF o.kind = "Success"
           THEN /\ req' = [req EXCEPT ![r] = Some(o.value)]
                /\ pc' = [pc EXCEPT ![r] = "handler"]
                /\ UNCHANGED outcome
           ELSE /\ outcome' = [outcome EXCEPT ![r] = Some(o)]
                /\ pc' = [pc EXCEPT ![r] = "rejected"]
                /\ UNCHANGED req
    /\ UNCHANGED <<pureVars, max_size, on_creation, headers, file, vault, uri,
                   addCalls, cbCalls>>

\* creation_handler, lines 13-17: the file, its fresh id, its metadata
HandlerNewFile(r) ==
    /\ pc[r] = "handler"
    /\ \E id \in Ids \ UsedIds :
          file' = [file EXCEPT ![r] =
                      Some(CometFile(id, req[r].v.upload_length, req[r].v.metadata))]
    /\ pc' = [pc EXCEPT ![r] = "add"]
    /\ UNCHANGED <<pureVars, max_size, on_creation, headers, req, vault, outcome, uri,
                   addCalls, cbCalls>>

\* a failed add answered with its cause in the body
HandlerVaultAdd_Leaky(r) ==
    /\ pc[r] = "add"
    /\ \E res \in VaultResults :
          /\ addCalls' = [addCalls EXCEPT ![r] = Append(@, res)]
          /\ IF res.ok
             THEN /\ vault' = VaultAdd(vault, file[r].v, r, Len(addCalls[r]) + 1)
                  /\ pc' = [pc EXCEPT ![r] = "added"]
                  /\ UNCHANGED outcome
             ELSE /\ outcome' = [outcome EXCEPT ![r] =
                                    Some(ResponderFailure("InternalServerError", res.e))]
                  /\ pc' = [pc EXCEPT ![r] = "done"]
                  /\ UNCHANGED vault
    /\ UNCHANGED <<pureVars, max_size, on_creation, headers, req, file, uri, cbCalls>>

\* a failed add tried again
HandlerVaultAdd_Retry(r) ==
    /\ pc[r] = "add"
    /\ \E res \in VaultResults :
          /\ addCalls' = [addCalls EXCEPT ![r] = Append(@, res)]
          /\ IF res.ok
             THEN /\ vault' = VaultAdd(vault, file[r].v, r, Len(addCalls[r]) + 1)
                  /\ pc' = [pc EXCEPT ![r] = "added"]
                  /\ UNCHANGED outcome
             ELSE IF Len(addCalls[r]) = 0
             THEN UNCHANGED <<vault, pc, outcome>>
             ELSE /\ outcome' = [outcome EXCEPT ![r] =
                                    Some(ResponderFailure("InternalServerError", "some error"))]
                  /\ pc' = [pc EXCEPT ![r] = "done"]
                  /\ UNCHANGED vault
    /\ UNCHANGED <<pureVars, max_size, on_creation, headers, req, file, uri, cbCalls>>

\* creation_handler, lines 19-21: vault.add, and the failure response
HandlerVaultAdd(r) ==
    /\ pc[r] = "add"
    /\ \E res \in VaultResults :
          /\ addCalls' = [addCalls EXCEPT ![r] = Append(@, res)]
          /\ IF res.ok
             THEN /\ vault' = VaultAdd(vault, file[r].v, r, Len(addCalls[r]) + 1)
                  /\ pc' = [pc EXCEPT ![r] = "added"]
                  /\ UNCHANGED outcome
             ELSE /\ outcome' = [outcome EXCEPT ![r] =
                                    Some(ResponderFailure("InternalServerError", "some error"))]
                  /\ pc' = [pc EXCEPT ![r] = "done"]
                  /\ UNCHANGED vault
    /\ UNCHANGED <<pureVars, max_size, on_creation, headers, req, file, uri, cbCalls>>

\* the configured callback left out
HandlerCallback_Skipped(r) ==
    /\ pc[r] = "added"
    /\ uri' = [uri EXCEPT ![r] = Some(FormatUri(file[r].v.id))]
    /\ pc' = [pc EXCEPT ![r] = "respond"]
    /\ UNCHANGED <<pureVars, max_size, on_creation, headers, req, file, vault, outcome,
                   addCalls, cbCalls>>

\* creation_handler, lines 23-27: the location, then the callback if one is
\* configured; a callback that panics unwinds through the handler
HandlerCallback(r) ==
    /\ pc[r] = "added"
    /\ uri' = [uri EXCEPT ![r] = Some(FormatUri(file[r].v.id))]
    /\ IF on_creation
       THEN \E res \in {"returned", "panicked"} :
               /\ cbCalls' = [cbCalls EXCEPT ![r] = Append(@, res)]
               /\ IF res = "returned"
                  THEN /\ pc' = [pc EXCEPT ![r] = "respond"]
                       /\ UNCHANGED outcome
                  ELSE /\ pc' = [pc EXCEPT ![r] = "panicked"]
                       /\ outcome' = [outcome EXCEPT ![r] = Some(Unwound)]
       ELSE /\ pc' = [pc EXCEPT ![r] = "respond"]
            /\ UNCHANGED <<cbCalls, outcome>>
    /\ UNCHANGED <<pureVars, max_size, on_creation, headers, req, file, vault, addCalls>>

\* creation_handler, line 29
HandlerRespond(r) ==
    /\ pc[r] = "respond"
    /\ outcome' = [outcome EXCEPT ![r] = Some(ResponderSuccess(uri[r].v))]
    /\ pc' = [pc EXCEPT ![r] = "done"]
    /\ UNCHANGED <<pureVars, max_size, on_creation, headers, req, file, vault, uri,
                   addCalls, cbCalls>>

Next ==
    \E r \in Reqs :
        \/ \E h \in ClientHeaders : Receive(r, h)
        \/ FromRequest(r)
        \/ HandlerNewFile(r)
        \/ HandlerVaultAdd(r)
        \/ HandlerCallback(r)
        \/ HandlerRespond(r)

Spec == Init /\ [][Next]_vars

----------------------------------------------------------------------------
(* The four checks of the negotiator, stated on the headers *)

RECURSIVE DecimalValue(_)
DecimalValue(d) ==
    IF d = <<>> THEN 0 ELSE 10 * DecimalValue(SubSeq(d, 1, Len(d) - 1)) + ToDigit(d[Len(d)])

UnsignedDigits(s) == IF s # <<>> /\ s[1] = "+" THEN Tail(s) ELSE s

IsU64Text(s) ==
    LET d == UnsignedDigits(s)
    IN  /\ d # <<>>
        /\ \A i \in 1..Len(d) : IsDigit(d[i])
        /\ DecimalValue(d) <= U64_MAX

DeclaredLength(h) == DecimalValue(UnsignedDigits(h.upload_length.v))

VersionOk(h) == h.tus_resumable.some /\ h.tus_resumable.v = TUS_VERSION
ContentLengthPresent(h) == h.content_length.some
UploadLengthParses(h) == h.upload_length.some /\ IsU64Text(h.upload_length.v)

\* the first check that fails, 0 when all four pass
FirstFailing(h, ceiling) ==
    IF ~VersionOk(h) THEN 1
    ELSE IF ~ContentLengthPresent(h) THEN 2
    ELSE IF ~UploadLengthParses(h) THEN 3
    ELSE IF DeclaredLength(h) > ceiling THEN 4
    ELSE 0

\* the check an outcome reports, by its status and message
ReportedCheck(r) ==
    IF r.kind = "Success" THEN 0
    ELSE IF r.status = "BadRequest" /\ r.msg = "Missing or invalid Tus-Resumable header" THEN 1
    ELSE IF r.status = "BadRequest" /\ r.msg = "Missing Content-Length header" THEN 2
    ELSE IF r.status = "BadRequest"
            /\ r.msg \in {"Missing Upload-Length header", "Invalid Upload-Length header"} THEN 3
    ELSE IF r.status = "PayloadTooLarge" THEN 4
    ELSE 5

IsFailure(r, status) == r.kind = "Failure" /\ r.status = status

\* C1: the outcome of from_request is that of the first failing check in the
\* order version, Content-Length presence, Upload-Length presence and parse,
\* ceiling; checks 1-3 answer BadRequest, check 4 PayloadTooLarge, and the
\* request is accepted only when all four pass; replacing the value of a
\* present Content-Length header by any other value leaves the outcome as is.
C1_FirstFailingCheckWins ==
    phase = "negotiated" =>
        /\ ReportedCheck(result) = FirstFailing(input.h, input.ceiling)
        /\ \A v \in ContentLengthValues \ {None} :
              input.h.content_length.some =>
                from_request([input.h EXCEPT !.content_length = v], input.ceiling) = result

\* C1 witness: a wrong version together with an oversize declared length
C1_Witness ==
    /\ phase = "negotiated"
    /\ ~VersionOk(input.h)
    /\ ContentLengthPresent(input.h)
    /\ UploadLengthParses(input.h)
    /\ DeclaredLength(input.h) > input.ceiling
    /\ IsFailure(result, "BadRequest")

\* C2: once version, Content-Length and Upload-Length presence/parse pass, the
\* request is too-large exactly when the declared length is strictly above the
\* ceiling, and otherwise accepted with upload_length the declared value; a
\* missing or unparsable length is never too-large.
C2_TooLargeIffAboveCeiling ==
    phase = "negotiated" =>
        /\ (VersionOk(input.h) /\ ContentLengthPresent(input.h) /\ UploadLengthParses(input.h)) =>
              /\ IsFailure(result, "PayloadTooLarge") <=> DeclaredLength(input.h) > input.ceiling
              /\ DeclaredLength(input.h) <= input.ceiling =>
                    /\ result.kind = "Success"
                    /\ result.value.upload_length = DeclaredLength(input.h)
        /\ ~UploadLengthParses(input.h) => ~IsFailure(result, "PayloadTooLarge")

\* C2 witness: a declared length equal to a non-zero ceiling is accepted
C2_Witness ==
    /\ phase = "negotiated"
    /\ VersionOk(input.h) /\ ContentLengthPresent(input.h) /\ UploadLengthParses(input.h)
    /\ input.ceiling > 0
    /\ DeclaredLength(input.h) = input.ceiling
    /\ result.kind = "Success"
    /\ result.value.upload_length = input.ceiling

----------------------------------------------------------------------------
(* Claims about creation_handler *)

Rejected(r) == pc[r] = "rejected"
AddSucceeded(r) == \E i \in 1..Len(addCalls[r]) : addCalls[r][i].ok
AddFailed(r) == \E i \in 1..Len(addCalls[r]) : ~addCalls[r][i].ok
Ended(r) == pc[r] \in {"rejected", "done", "panicked"}
Succeeded(r) == outcome[r].some /\ outcome[r].v.kind = "Success"

\* C4: every request whose vault add succeeded ends with the success outcome
\* carrying /files/{id}, whether the callback is absent, returns or fails.
C4_CallbackFailureIsolated ==
    \A r \in Reqs :
        (AddSucceeded(r) /\ Ended(r)) =>
            outcome[r] = Some(ResponderSuccess(FormatUri(file[r].v.id)))

\* C5: whenever vault.add fails, whatever the cause, the outcome is the failure
\* with status InternalServerError and the one fixed body; no success outcome
\* and no location are produced for that request.
C5_VaultFailureIsInternalError ==
    \A r \in Reqs :
        AddFailed(r) =>
            /\ outcome[r] = Some(ResponderFailure("InternalServerError", "some error"))
            /\ uri[r] = None
            /\ pc[r] = "done"

\* C5 witness: two requests whose adds failed for different causes got the
\* same response
C5_Witness ==
    \E r, q \in Reqs :
        /\ addCalls[r] = <<Err("io")>>
        /\ addCalls[q] = <<Err("serialize")>>
        /\ outcome[r].some
        /\ outcome[r] = outcome[q]

\* C6: each request calls vault.add at most once; a request rejected by
\* from_request calls it never and leaves no record; a request that ends in
\* the success outcome has exactly one record, of the declared upload length
\* (without metadata when the request carried none), whose id is the one of
\* the returned location.
C6_OneRecordPerCreatedRequest ==
    \A r \in Reqs :
        /\ Len(addCalls[r]) <= 1
        /\ Rejected(r) => (addCalls[r] = <<>> /\ RecordsOf(r) = {})
        /\ Succeeded(r) =>
             \E rec \in RecordsOf(r) :
                 /\ RecordsOf(r) = {rec}
                 /\ rec.file.length = DeclaredLength(headers[r].v)
                 /\ ~headers[r].v.metadata.some => rec.file.metadata = None
                 /\ outcome[r].v.uri = FormatUri(rec.file.id)

\* C6 witness: a created request of length 2 without metadata next to a
\* rejected one, one record in the vault
C6_Witness ==
    \E r, q \in Reqs :
        /\ Succeeded(r)
        /\ max_size = 20
        /\ headers[r].v.upload_length = Some(<<"2">>)
        /\ \E rec \in vault : rec.file.length = 2 /\ rec.file.metadata = None /\ rec.req = r
        /\ Rejected(q)
        /\ Cardinality(vault) = 1

\* C9: the callback runs at most once per request and only after that
\* request's vault add succeeded, never for a rejected request nor one whose
\* add failed, never when none is configured; when one is configured it has
\* run for every request that is past the callback step, so before any success
\* outcome.
C9_CallbackAfterPersistence ==
    \A r \in Reqs :
        /\ Len(cbCalls[r]) <= 1
        /\ cbCalls[r] # <<>> => (on_creation /\ AddSucceeded(r) /\ ~AddFailed(r) /\ ~Rejected(r))
        /\ (on_creation /\ pc[r] \in {"respond", "done", "panicked"} /\ AddSucceeded(r))
              => Len(cbCalls[r]) = 1
        /\ (on_creation /\ Succeeded(r)) => cbCalls[r] = <<"returned">>

\* C9 witness: with a callback configured, one request created after its
\* callback ran, another rejected without it
C9_Witness ==
    \E r, q \in Reqs :
        /\ on_creation
        /\ Succeeded(r)
        /\ cbCalls[r] = <<"returned">>
        /\ Rejected(q)
        /\ cbCalls[q] = <<>>

=============================================================================
